---- MODULE Spec2Model ----
(***************************************************************************)
(* A model of notebooks/pixel_cnn/pixelcnn_helpers.py: the causal masks of  *)
(* PixelConv2D, the layer's build/call life cycle, the block assembly       *)
(* (conv_block, resnet_block, final_block), the discretised logistic        *)
(* probability table (compute_pvals, compute_mixture) and the mixture loss  *)
(* (pixelcnn_loss).                                                         *)
(***************************************************************************)
EXTENDS Integers, Sequences, FiniteSets, TLC

VARIABLES
    \* which part of the module the run exercises: "mask", "layer", "pvals",
    \* "loss" or "net"
    unit,
    \* build_mask applied to one kernel shape and one colour, both variants
    m_shape, m_color, masks,
    \* one PixelConv2D layer instance: its constructor arguments, the
    \* attributes build sets, the argument and outcome of the last build,
    \* the method that ran last, and the locals of call when it returns
    \* (none are left once another method has run)
    lyr, built, kernel_mask, kernel, bias, input_spec, input_shape, build_err,
    lyr_pc, masked_kernel, outputs,
    \* compute_pvals and compute_mixture: arguments and returned values
    pv_arg, pvals, mix_arg, mixture,
    \* pixelcnn_loss on one pixel: arguments, locals at return, error raised
    ls_in, ls_out, ls_err,
    \* a network under assembly: the block applied last, the image size, the
    \* filters per colour group and the number of blocks of the current
    \* tensor, and for each of its channels and pixels the set of image
    \* entries <<channel, pixel>> its value may depend on
    net_pc, net_dims, net_filters, net_depth, dep

maskVars == <<m_shape, m_color, masks>>
layerVars == <<lyr, built, kernel_mask, kernel, bias, input_spec, input_shape,
               build_err, lyr_pc, masked_kernel, outputs>>
pvalsVars == <<pv_arg, pvals, mix_arg, mixture>>
lossVars == <<ls_in, ls_out, ls_err>>
netVars == <<net_pc, net_dims, net_filters, net_depth, dep>>

vars == <<unit, maskVars, layerVars, pvalsVars, lossVars, netVars>>

\* Python's None, and an attribute that was never assigned.
None == "None"
\* None where a tensor is expected (a tensor is a function of its index tuples)
NoTensor == <<>>
\* None where a dimension of a shape is expected
NoneDim == -1

-----------------------------------------------------------------------------
(* Bounds of the model *)

\* kernel heights and widths 1..MaxKernel are tried by build_mask
MaxKernel == 5
\* input channel counts 1..MaxInDim
MaxInDim == 6
\* filter counts (output channels of one PixelConv2D) 1..MaxFilters
MaxFilters == 2
\* kernel heights and widths 1..MaxLayerKernel given to a layer that is
\* built and called
MaxLayerKernel == 3
\* the layer is called on images of ImgSide x ImgSide pixels
ImgSide == 3
\* probabilities are kept to FracBits binary places
FracBits == 20
\* exp(invs) is 1..MaxScale times 127.5 * ln 2
MaxScale == 3
\* the lists given to compute_mixture hold 1..MaxComps components
MaxComps == 2
\* networks are assembled over images of MaxNetSide - 1 or MaxNetSide rows
\* and columns,
\* with kernels of size 1..MaxNetKernel, and hold at most MaxDepth blocks
\* before the final one
MaxNetSide == 3
MaxNetKernel == 3
MaxDepth == 2

-----------------------------------------------------------------------------
(* PixelConv2D.__init__ and build_mask *)

Colors == {"r", "g", "b"}
Variants == {"a", "b"}
\* ptype is the two-character string of the source, as the pair of its characters
PTypes == {<<c, v>> : c \in Colors, v \in Variants}

\* index range(n) of Python
Range(n) == 0 .. (n - 1)

\* build_mask without the check that the kernel size is odd (mutant)
MaskShapeError_NoOddCheck(kernel_shape) ==
    IF kernel_shape[1] # kernel_shape[2] THEN "AssertionError"
    ELSE IF kernel_shape[3] % 3 # 0 THEN "AssertionError"
    ELSE "none"

\* the three checks at the top of build_mask; the first that fails raises
MaskShapeError(kernel_shape) ==
    IF kernel_shape[1] # kernel_shape[2] THEN "AssertionError"
    ELSE IF kernel_shape[1] % 2 # 1 THEN "AssertionError"
    ELSE IF kernel_shape[3] % 3 # 0 THEN "AssertionError"
    ELSE "none"

\* filt_prev and filt_thres of the layer's colour; int(x / 3) truncates
FiltPrev(ptype, cin) ==
    IF ptype[1] = "r" THEN 0
    ELSE IF ptype[1] = "g" THEN cin \div 3
    ELSE (2 * cin) \div 3

FiltThres(ptype, cin) ==
    IF ptype[1] = "r" THEN cin \div 3
    ELSE IF ptype[1] = "g" THEN (2 * cin) \div 3
    ELSE cin

\* mutants of MaskEntry
MaskEntry_NoCentreRow(ptype, mid, filt_prev, filt_thres, k1, k2, chan) ==
    IF ptype[2] = "a" /\ filt_prev <= chan /\ chan < filt_thres
       /\ k1 = mid /\ k2 = mid
    THEN 0
    ELSE IF k1 > mid \/ (k1 > mid /\ k2 > mid) \/ chan >= filt_thres
    THEN 0
    ELSE 1

MaskEntry_StrictCentre(ptype, mid, filt_prev, filt_thres, k1, k2, chan) ==
    IF ptype[2] = "a" /\ filt_prev <= chan /\ chan < filt_thres
       /\ k1 = mid /\ k2 = mid
    THEN 0
    ELSE IF k1 > mid \/ (k1 >= mid /\ k2 >= mid) \/ chan >= filt_thres
    THEN 0
    ELSE 1

MaskEntry_NoVariant(ptype, mid, filt_prev, filt_thres, k1, k2, chan) ==
    IF k1 > mid \/ (k1 >= mid /\ k2 > mid) \/ chan >= filt_thres
    THEN 0
    ELSE 1

\* the body of the triple loop: the value data[k1, k2, chan, :] ends with
MaskEntry(ptype, mid, filt_prev, filt_thres, k1, k2, chan) ==
    IF ptype[2] = "a" /\ filt_prev <= chan /\ chan < filt_thres
       /\ k1 = mid /\ k2 = mid
    THEN 0
    ELSE IF k1 > mid \/ (k1 >= mid /\ k2 > mid) \/ chan >= filt_thres
    THEN 0
    ELSE 1

\* the index set of a tensor of shape kernel_shape
KernelIndex(kernel_shape) ==
    Range(kernel_shape[1]) \X Range(kernel_shape[2])
        \X Range(kernel_shape[3]) \X Range(kernel_shape[4])

\* build_mask: [err, data]; data is the constant tensor returned, indexed
\* <<k1, k2, chan, out>>
BuildMask(ptype, kernel_shape) ==
    LET e == MaskShapeError(kernel_shape) IN
    IF e # "none" THEN [err |-> e, data |-> NoTensor]
    ELSE LET mid == kernel_shape[1] \div 2
             filt_prev == FiltPrev(ptype, kernel_shape[3])
             filt_thres == FiltThres(ptype, kernel_shape[3])
         IN [err |-> "none",
             data |-> [i \in KernelIndex(kernel_shape) |->
                          MaskEntry(ptype, mid, filt_prev, filt_thres,
                                    i[1], i[2], i[3])]]

-----------------------------------------------------------------------------
(* build_mask as a pure function: one shape and colour, each variant built *)

KernelShapes ==
    (1 .. MaxKernel) \X (1 .. MaxKernel) \X (1 .. MaxInDim) \X (1 .. MaxFilters)

LayerIdle ==
    /\ lyr = None /\ built = FALSE /\ kernel_mask = NoTensor
    /\ kernel = NoTensor /\ bias = NoTensor /\ input_spec = None
    /\ input_shape = None /\ build_err = "none" /\ lyr_pc = None
    /\ masked_kernel = NoTensor /\ outputs = NoTensor

PvalsIdle ==
    pv_arg = None /\ pvals = NoTensor /\ mix_arg = None /\ mixture = NoTensor

LossIdle == ls_in = None /\ ls_out = None /\ ls_err = "none"

NetIdle ==
    /\ net_pc = None /\ net_dims = None /\ net_filters = 0
    /\ net_depth = 0 /\ dep = NoTensor

\* build_mask has not been called for this variant
NotCalled == [err |-> "not called", data |-> NoTensor]

MaskIdle == m_shape = None /\ m_color = None /\ masks = None

InitMask ==
    /\ m_shape \in KernelShapes
    /\ m_color \in Colors
    /\ masks = [v \in Variants |-> NotCalled]
    /\ unit = "mask"
    /\ LayerIdle /\ PvalsIdle /\ LossIdle /\ NetIdle

\* self.build_mask(kernel_shape) of the layer of colour m_color, variant v
BuildMaskStep(v) ==
    /\ unit = "mask"
    /\ masks[v] = NotCalled
    /\ masks' = [masks EXCEPT ![v] = BuildMask(<<m_color, v>>, m_shape)]
    /\ UNCHANGED <<unit, m_shape, m_color, layerVars, pvalsVars, lossVars, netVars>>

NextMask == \E v \in Variants : BuildMaskStep(v)

SpecMask == InitMask /\ [][NextMask]_vars

-----------------------------------------------------------------------------
(* The PixelConv2D layer: __init__, build, call *)

\* Conv2D's constructor arguments that build and call read
LayerArgs ==
    {[ptype |-> pt, filters |-> f, kernel_size |-> ks, padding |-> pad,
      data_format |-> df, use_bias |-> tail[1], activation |-> tail[2]] :
        pt \in PTypes, f \in 1 .. MaxFilters,
        ks \in (1 .. MaxLayerKernel) \X (1 .. MaxLayerKernel),
        pad \in {"valid", "same"},
        df \in {"channels_last", "channels_first"},
        tail \in {<<TRUE, "relu">>, <<FALSE, None>>}}

\* shape[axis] of Python, axis possibly negative
ShapeAt(shape, axis) ==
    IF axis >= 0 THEN shape[axis + 1] ELSE shape[Len(shape) + axis + 1]

\* the input shapes build is given: batch, then the image in the layer's
\* data format, with a channel dimension that may be None
InDims == {NoneDim} \cup (1 .. MaxInDim)
InputShapes(data_format) ==
    {IF data_format = "channels_first"
     THEN <<NoneDim, d, ImgSide, ImgSide>>
     ELSE <<NoneDim, ImgSide, ImgSide, d>> : d \in InDims}

\* the values the weights hold: pattern 1 is what the initializers give,
\* pattern 2 what an optimiser step may leave
WeightPatterns == {1, 2}
WeightValue(p, n) ==
    IF p = 1 THEN 1
    ELSE (n % 5) - 2

KernelWeights(p, kernel_shape) ==
    [i \in KernelIndex(kernel_shape) |->
        WeightValue(p, i[1] + 2 * i[2] + 3 * i[3] + 5 * i[4])]

BiasWeights(p, filters) == [o \in Range(filters) |-> WeightValue(p, o)]

\* the images call is given, indexed <<row, col, chan>>
InputPatterns == {1, 2}
InputTensor(q, cin) ==
    [i \in Range(ImgSide) \X Range(ImgSide) \X Range(cin) |->
        IF q = 1 THEN 1 + i[1] + 2 * i[2] + i[3]
        ELSE ((i[1] + 2 * i[2] + i[3]) % 3) - 1]

\* self.kernel * self.kernel_mask without the mask (mutant)
MaskedKernel_NoMask(w, mask) == w

\* self.kernel * self.kernel_mask
MaskedKernel(w, mask) == [i \in DOMAIN w |-> w[i] * mask[i]]

\* K.conv2d with strides and dilation_rate left at 1 (TensorFlow's
\* cross-correlation): x is indexed <<row, col, chan>>, w <<k1, k2, chan, out>>
Conv2d(x, w, kernel_shape, padding) ==
    LET kh == kernel_shape[1]
        kw == kernel_shape[2]
        cin == kernel_shape[3]
        padTop == IF padding = "same" THEN (kh - 1) \div 2 ELSE 0
        padLeft == IF padding = "same" THEN (kw - 1) \div 2 ELSE 0
        outRows == IF padding = "same" THEN ImgSide ELSE ImgSide - kh + 1
        outCols == IF padding = "same" THEN ImgSide ELSE ImgSide - kw + 1
        Term(r, c, o, n) ==
            LET k1 == n \div (kw * cin)
                k2 == (n \div cin) % kw
                ch == n % cin
                rr == r + k1 - padTop
                cc == c + k2 - padLeft
            IN IF rr \in Range(ImgSide) /\ cc \in Range(ImgSide)
               THEN x[<<rr, cc, ch>>] * w[<<k1, k2, ch, o>>]
               ELSE 0
        Acc(r, c, o) ==
            LET S[n \in 0 .. (kh * kw * cin)] ==
                    IF n = 0 THEN 0 ELSE S[n - 1] + Term(r, c, o, n - 1)
            IN S[kh * kw * cin]
    IN [i \in Range(outRows) \X Range(outCols) \X Range(kernel_shape[4]) |->
           Acc(i[1], i[2], i[3])]

\* K.bias_add
BiasAdd(y, b) == [i \in DOMAIN y |-> y[i] + b[i[3]]]

\* self.activation
Activate(act, y) ==
    IF act = "relu" THEN [i \in DOMAIN y |-> IF y[i] > 0 THEN y[i] ELSE 0]
    ELSE y

\* the kernel shape of the built layer: kernel_size + (input_dim, filters)
KernelShapeOf(l, input_dim) == l.kernel_size \o <<input_dim, l.filters>>

\* PixelConv2D(ptype, ...): Conv2D's constructor leaves the layer not built,
\* without kernel, bias or kernel_mask, with InputSpec(ndim=rank + 2) and no
\* axes
Init ==
    /\ lyr \in LayerArgs
    /\ built = FALSE
    /\ kernel_mask = NoTensor /\ kernel = NoTensor /\ bias = NoTensor
    /\ input_spec = [ndim |-> 2 + 2, axes |-> <<>>]
    /\ input_shape = <<>>
    /\ build_err = "none"
    /\ lyr_pc = "__init__"
    /\ masked_kernel = NoTensor /\ outputs = NoTensor
    /\ unit = "layer"
    /\ MaskIdle /\ PvalsIdle /\ LossIdle /\ NetIdle

\* PixelConv2D.build(input_shape), on a new layer or on one built before: a
\* build that raises assigns nothing, one that succeeds replaces the mask,
\* the weights and the input spec
Build(shape) ==
    /\ unit = "layer"
    /\ lyr_pc' = "build"
    /\ input_shape' = shape
    /\ LET channel_axis ==
               IF lyr.data_format = "channels_first" THEN 1 ELSE 0 - 1
           input_dim == ShapeAt(shape, channel_axis)
           kernel_shape == KernelShapeOf(lyr, input_dim)
           m == BuildMask(lyr.ptype, kernel_shape)
       IN IF input_dim = NoneDim
          THEN /\ build_err' = "ValueError"
               /\ UNCHANGED <<built, kernel_mask, kernel, bias, input_spec>>
          ELSE IF m.err # "none"
          THEN /\ build_err' = m.err
               /\ UNCHANGED <<built, kernel_mask, kernel, bias, input_spec>>
          ELSE /\ kernel_mask' = m.data
               /\ kernel' = KernelWeights(1, kernel_shape)
               /\ bias' = IF lyr.use_bias
                          THEN BiasWeights(1, lyr.filters) ELSE NoTensor
               /\ input_spec' = [ndim |-> 2 + 2,
                                 axes |-> <<channel_axis, input_dim>>]
               /\ built' = TRUE
               /\ build_err' = "none"
    /\ masked_kernel' = NoTensor /\ outputs' = NoTensor
    /\ UNCHANGED <<unit, lyr, maskVars, pvalsVars, lossVars, netVars>>

\* PixelConv2D.call(inputs)
Call(q) ==
    /\ unit = "layer"
    /\ built
    /\ lyr_pc' = "call"
    /\ LET input_dim == input_spec.axes[2]
           kernel_shape == KernelShapeOf(lyr, input_dim)
           mk == MaskedKernel(kernel, kernel_mask)
           conv == Conv2d(InputTensor(q, input_dim), mk, kernel_shape,
                          lyr.padding)
           biased == IF lyr.use_bias THEN BiasAdd(conv, bias) ELSE conv
       IN /\ masked_kernel' = mk
          /\ outputs' = Activate(lyr.activation, biased)
    /\ UNCHANGED <<unit, lyr, built, kernel_mask, kernel, bias, input_spec,
                   input_shape, build_err, maskVars, pvalsVars, lossVars, netVars>>

\* a training step of the external optimiser writes the learned weights
UpdateWeights(p) ==
    /\ unit = "layer"
    /\ built
    /\ LET kernel_shape == KernelShapeOf(lyr, input_spec.axes[2])
       IN /\ kernel' = KernelWeights(p, kernel_shape)
          /\ bias' = IF lyr.use_bias
                     THEN BiasWeights(p, lyr.filters) ELSE NoTensor
    /\ kernel' # kernel
    /\ lyr_pc' = "update"
    /\ masked_kernel' = NoTensor /\ outputs' = NoTensor
    /\ UNCHANGED <<unit, lyr, built, kernel_mask, input_spec, input_shape,
                   build_err, maskVars, pvalsVars, lossVars, netVars>>

Next ==
    \/ /\ unit = "layer"
       /\ \E sh \in InputShapes(lyr.data_format) : Build(sh)
    \/ \E q \in InputPatterns : Call(q)
    \/ \E p \in WeightPatterns : UpdateWeights(p)

Spec == Init /\ [][Next]_vars

-----------------------------------------------------------------------------
(* sigmoid, logistic_cdf, compute_pvals, compute_mixture *)

(* Numbers.  The argument of sigmoid is taken on the grid k * ln 2, k an    *)
(* integer, where math.exp is exact: exp(-k ln 2) = 2^(-k).  A mean m is    *)
(* the integer M with m = M / 127.5, a log inverse scale invs the integer   *)
(* S >= 1 with exp(invs) = S * 127.5 * ln 2, and a position x the integer   *)
(* X with x = X / 127.5, so that (x - m) / (1 / exp(invs)) = (X - M) S ln 2.*)
(* A probability is an integer number of units of 1 / ONE, rounded down.    *)

ONE == 2 ^ FracBits

\* the two cut-offs of sigmoid, in the units of x
SigmoidLow == -20
SigmoidHigh == 20

\* x < c and x > c at x = k ln 2, with ln 2 = 0.693147 to a millionth
BelowCut(k, c) == k * 693147 < c * 1000000
AboveCut(k, c) == k * 693147 > c * 1000000

\* sigmoid(x) at x = k ln 2: 1 / (1 + 2^(-k)) between the cut-offs, rounded
\* down to a multiple of 1 / ONE
Sigmoid(k) ==
    IF BelowCut(k, SigmoidLow) THEN 0
    ELSE IF AboveCut(k, SigmoidHigh) THEN ONE
    ELSE IF k <= 0 THEN ONE \div (1 + 2 ^ (0 - k))
    ELSE ONE - ((ONE + 2 ^ k) \div (2 ^ k + 1))

\* logistic_cdf(x, loc, scale) with x = X / 127.5, loc = M / 127.5 and
\* scale = 1 / exp(invs) = 1 / (S * 127.5 * ln 2)
LogisticCdf(X, M, S) == Sigmoid((X - M) * S)

\* the number of pixel values and the centre of the pixel range, doubled:
\* (i + 0.5 - 127.5) / 127.5 is the position X = ((2 i + 1) - 255) / 2
NBins == 256
LastBin == 255
TwiceCentre == 255
UpperEdge(i) == ((2 * i + 1) - TwiceCentre) \div 2
LowerEdge(i) == ((2 * i - 1) - TwiceCentre) \div 2

\* compute_pvals with the last bin taken from its upper edge (mutant)
PvalEntry_LastUpper(i, M, S) ==
    IF i = 0 THEN LogisticCdf(UpperEdge(0), M, S)
    ELSE IF i = LastBin THEN ONE - LogisticCdf(UpperEdge(LastBin), M, S)
    ELSE LogisticCdf(UpperEdge(i), M, S) - LogisticCdf(LowerEdge(i), M, S)

\* the body of the loop of compute_pvals
PvalEntry(i, M, S) ==
    IF i = 0 THEN LogisticCdf(UpperEdge(0), M, S)
    ELSE IF i = LastBin THEN ONE - LogisticCdf(LowerEdge(LastBin), M, S)
    ELSE LogisticCdf(UpperEdge(i), M, S) - LogisticCdf(LowerEdge(i), M, S)

\* compute_pvals(m, invs): the list pvals, indexed 0..255
ComputePvals(M, S) == [i \in Range(NBins) |-> PvalEntry(i, M, S)]

\* mixture weights are integers in units of 1 / WUnit; weights[i] * arr is
\* kept exactly, in units of 1 / (WUnit * ONE)
WUnit == 4

\* compute_mixture that weighs every component by weights[0] (mutant)
ComputeMixture_FirstWeight(ms, invs, weights, n_comps) ==
    LET components ==
            [c \in 1 .. n_comps |->
                LET pv == ComputePvals(ms[c], invs[c])
                IN [i \in Range(NBins) |-> weights[1] * pv[i]]]
        S[c \in 0 .. n_comps] ==
            IF c = 0 THEN [i \in Range(NBins) |-> 0]
            ELSE [i \in Range(NBins) |-> S[c - 1][i] + components[c][i]]
    IN S[n_comps]

\* compute_mixture(ms, invs, weights, n_comps); the lists are 1-indexed here
ComputeMixture(ms, invs, weights, n_comps) ==
    LET components ==
            [c \in 1 .. n_comps |->
                LET pv == ComputePvals(ms[c], invs[c])
                IN [i \in Range(NBins) |-> weights[c] * pv[i]]]
        S[c \in 0 .. n_comps] ==
            IF c = 0 THEN [i \in Range(NBins) |-> 0]
            ELSE [i \in Range(NBins) |-> S[c - 1][i] + components[c][i]]
    IN S[n_comps]

\* the means and scales tried: in range, at both ends of the pixel range
\* and beyond them
Means == {-300, -129, -128, -127, -100, -1, 0, 1, 64, 126, 127, 128, 200}
Scales == 1 .. MaxScale

\* the components compute_mixture is given: <<mean, scale, weight>>
Components ==
    {<<0, 1, WUnit>>, <<-100, 2, 1>>, <<127, 1, 2>>, <<64, 3, 3>>,
     <<-300, 1, 0>>, <<1, 2, 2 * WUnit>>}

ComponentLists == UNION {[1 .. len -> Components] : len \in 1 .. MaxComps}

\* the arguments of compute_mixture: the three lists and n_comps, which may
\* be less than their length
MixtureArgs ==
    {[ms |-> [c \in DOMAIN comps |-> comps[c][1]],
      invs |-> [c \in DOMAIN comps |-> comps[c][2]],
      weights |-> [c \in DOMAIN comps |-> comps[c][3]],
      n_comps |-> n] : <<comps, n>> \in
         {cn \in ComponentLists \X (1 .. MaxComps) : cn[2] <= Len(cn[1])}}

\* the arguments of the two functions: any mean and scale for compute_pvals
\* beside one full-weight component, or any lists for compute_mixture
\* beside compute_pvals of their first component
InitPvals ==
    /\ unit = "pvals"
    /\ \/ /\ pv_arg \in Means \X Scales
          /\ mix_arg = [ms |-> <<pv_arg[1]>>, invs |-> <<pv_arg[2]>>,
                        weights |-> <<WUnit>>, n_comps |-> 1]
       \/ /\ mix_arg \in MixtureArgs
          /\ pv_arg = <<mix_arg.ms[1], mix_arg.invs[1]>>
    /\ pvals = NoTensor
    /\ mixture = NoTensor
    /\ MaskIdle /\ LayerIdle /\ LossIdle /\ NetIdle

\* pvals = compute_pvals(m, invs)
ComputePvalsStep ==
    /\ unit = "pvals"
    /\ pvals = NoTensor
    /\ pvals' = ComputePvals(pv_arg[1], pv_arg[2])
    /\ UNCHANGED <<unit, pv_arg, mix_arg, mixture, maskVars, layerVars, lossVars, netVars>>

\* mixture = compute_mixture(ms, invs, weights, n_comps)
ComputeMixtureStep ==
    /\ unit = "pvals"
    /\ mixture = NoTensor
    /\ mixture' = ComputeMixture(mix_arg.ms, mix_arg.invs, mix_arg.weights,
                                 mix_arg.n_comps)
    /\ UNCHANGED <<unit, pv_arg, pvals, mix_arg, maskVars, layerVars, lossVars, netVars>>

NextPvals == ComputePvalsStep \/ ComputeMixtureStep

SpecPvals == InitPvals /\ [][NextPvals]_vars

-----------------------------------------------------------------------------
(* logsoftmax and pixelcnn_loss, on a batch of one image of one pixel *)

(* Numbers.  A target is an integer number of thousandths.  A logit is an   *)
(* integer k standing for k ln 2.  A logarithm y is held as the number      *)
(* exp(y): a log-likelihood as a likelihood in millionths, a log mixture    *)
(* weight as the weight, an exact fraction <<numerator, denominator>> in    *)
(* lowest terms; adding logarithms multiplies, logsumexp adds.  An element  *)
(* is given by the values cdfplus_safe and cdfminus_safe that lines 46-53   *)
(* compute for it: every pair 0 < cdfminus < cdfplus < 1 is the image of    *)
(* one log inverse scale and one centred mean, whatever the target, and     *)
(* these two fix mid_in and exp(edge_case) of lines 59-68.                  *)

RECURSIVE GCD(_, _)
GCD(a, b) == IF b = 0 THEN a ELSE GCD(b, a % b)

\* fractions in lowest terms
Frac(n, d) == LET g == GCD(n, d) IN <<n \div g, d \div g>>
FracAdd(a, b) == Frac(a[1] * b[2] + b[1] * a[2], a[2] * b[2])
FracMul(a, b) == Frac(a[1] * b[1], a[2] * b[2])
FracDiv(a, b) == Frac(a[1] * b[2], a[2] * b[1])
FracOne == <<1, 1>>

\* the sum of the fractions seq[lo..hi]
RECURSIVE FracSum(_, _, _)
FracSum(seq, lo, hi) ==
    IF lo > hi THEN <<0, 1>>
    ELSE FracAdd(FracSum(seq, lo, hi - 1), seq[hi])

\* the largest of seq
RECURSIVE SeqMax(_, _)
SeqMax(seq, n) ==
    IF n = 1 THEN seq[1]
    ELSE LET r == SeqMax(seq, n - 1) IN IF seq[n] > r THEN seq[n] ELSE r

\* logsoftmax(x): x - m - log(sum(exp(x - m))) along the last axis, which is
\* the whole of x; held as the fraction exp(x - m) / sum(exp(x - m))
LogSoftmax(x) ==
    LET m == SeqMax(x, Len(x))
        ex == [j \in DOMAIN x |-> <<1, 2 ^ (m - x[j])>>]
        total == FracSum(ex, 1, Len(x))
    IN [e \in DOMAIN x |-> FracDiv(ex[e], total)]

\* the constants of the branch table
TargetLow == -999
TargetHigh == 999
\* 1e-5 in millionths
CdfDiffMin == 10
\* 1e-12 in millionths, rounded to a millionth
LogFloor == 0

Maximum(a, b) == IF a >= b THEN a ELSE b

\* the likelihood selected with the test on the CDF difference first (mutant)
Where_DiffFirst(x, plus, minus, log_cdfplus, log_1minus_cdf, log_diff, edge_case) ==
    IF plus - minus > CdfDiffMin THEN log_diff
    ELSE IF x <= TargetLow THEN log_cdfplus
    ELSE IF x >= TargetHigh THEN log_1minus_cdf
    ELSE edge_case

\* the three nested K.tf.where of one element
Where(x, plus, minus, log_cdfplus, log_1minus_cdf, log_diff, edge_case) ==
    IF x <= TargetLow THEN log_cdfplus
    ELSE IF x >= TargetHigh THEN log_1minus_cdf
    ELSE IF plus - minus > CdfDiffMin THEN log_diff
    ELSE edge_case

ImgChns == 3

\* the locals of pixelcnn_loss at its return, all None before the call and
\* when it raises
NoLocals ==
    [x |-> <<>>, log_cdfplus |-> <<>>, log_1minus_cdf |-> <<>>,
     log_diff |-> <<>>, edge_case |-> <<>>, log_ll |-> <<>>,
     logw |-> <<>>, pre_result |-> <<>>, result |-> <<>>]

\* pixelcnn_loss(target, output, 1, 1, img_chns, n_components).  target is
\* the pixel's channel values; output holds, for each of the 3 n_components
\* elements, cdfplus, cdfminus and edge (from output_m and output_invs) and
\* the logit.  The value returned is minus the sum of the logarithms of
\* result.
PixelcnnLoss(target, output, img_chns, n) ==
    IF img_chns # ImgChns THEN [err |-> "AssertionError", loc |-> NoLocals]
    ELSE
    LET E == 1 .. (img_chns * n)
        x == [e \in E |-> target[(e - 1) \div n + 1]]
        x_logit_weights == [e \in E |-> output[e].logit]
        log_cdfplus == [e \in E |-> output[e].cdfplus]
        log_1minus_cdf == [e \in E |-> 1000000 - output[e].cdfminus]
        log_diff ==
            [e \in E |-> Maximum(output[e].cdfplus - output[e].cdfminus,
                                 LogFloor)]
        edge_case == [e \in E |-> output[e].edge]
        log_ll ==
            [e \in E |-> Where(x[e], output[e].cdfplus, output[e].cdfminus,
                               log_cdfplus[e], log_1minus_cdf[e],
                               log_diff[e], edge_case[e])]
        logw == LogSoftmax(x_logit_weights)
        pre_result == [e \in E |-> FracMul(logw[e], <<log_ll[e], 1>>)]
        result ==
            [chn \in 1 .. img_chns |->
                FracSum(pre_result, (chn - 1) * n + 1, chn * n)]
    IN [err |-> "none",
        loc |-> [x |-> x, log_cdfplus |-> log_cdfplus,
                 log_1minus_cdf |-> log_1minus_cdf, log_diff |-> log_diff,
                 edge_case |-> edge_case, log_ll |-> log_ll, logw |-> logw,
                 pre_result |-> pre_result, result |-> result]]

\* the elements: cdfplus and cdfminus in millionths, with a difference
\* above, at and below 1e-5, and edge, the value of exp(edge_case) in
\* millionths for the pair.  With p = logit(cdfplus), q = logit(cdfminus):
\* exp(invs) = 127.5 (p - q), mid_in = (p + q) / 2 and
\* edge_case = -mid_in - invs - 2 softplus(-mid_in) - log(127.5)
\*             + 2.04 invs - 0.107,
\* which gives 219297.52, 7.28, 8.03, 3.54 and 8.98 millionths
ElemGrid ==
    <<[cdfplus |-> 600000, cdfminus |-> 400000, edge |-> 219298],
      [cdfplus |-> 500010, cdfminus |-> 500000, edge |-> 7],
      [cdfplus |-> 500011, cdfminus |-> 500000, edge |-> 8],
      [cdfplus |-> 500005, cdfminus |-> 500000, edge |-> 4],
      [cdfplus |-> 11, cdfminus |-> 1, edge |-> 9]>>

TargetGrid == <<-1000, -999, -998, 0, 998, 999, 1000>>
LogitGrid == <<0, 1, -1>>

\* element e of the output: the grids are walked from a start with a stride
OutputOf(n, a, b, c, d) ==
    [e \in 1 .. (3 * n) |->
        LET g == ElemGrid[((a + b * (e - 1)) % Len(ElemGrid)) + 1]
        IN [cdfplus |-> g.cdfplus, cdfminus |-> g.cdfminus, edge |-> g.edge,
            logit |-> LogitGrid[((c + d * (e - 1)) % Len(LogitGrid)) + 1]]]

TargetOf(chns, t, u) ==
    [c \in 1 .. chns |-> TargetGrid[((t + u * (c - 1)) % Len(TargetGrid)) + 1]]

LossArgs ==
    {[target |-> TargetOf(chns, t, u), output |-> OutputOf(n, a, b, c, d),
      img_chns |-> chns, n_components |-> n] :
        chns \in {1, 3, 4}, n \in 1 .. MaxComps,
        t \in 0 .. (Len(TargetGrid) - 1), u \in 0 .. 2,
        a \in 0 .. (Len(ElemGrid) - 1), b \in 0 .. 2,
        c \in 0 .. (Len(LogitGrid) - 1), d \in 0 .. 1}

InitLoss ==
    /\ unit = "loss"
    /\ ls_in \in LossArgs
    /\ ls_out = NoLocals
    /\ ls_err = "not called"
    /\ MaskIdle /\ LayerIdle /\ PvalsIdle /\ NetIdle

\* the call of pixelcnn_loss
PixelcnnLossStep ==
    /\ unit = "loss"
    /\ ls_err = "not called"
    /\ LET r == PixelcnnLoss(ls_in.target, ls_in.output, ls_in.img_chns,
                             ls_in.n_components)
       IN ls_err' = r.err /\ ls_out' = r.loc
    /\ UNCHANGED <<unit, ls_in, maskVars, layerVars, pvalsVars, netVars>>

NextLoss == PixelcnnLossStep

SpecLoss == InitLoss /\ [][NextLoss]_vars

\* the two entry points that validate their configuration
SpecValidation == (Init \/ InitLoss) /\ [][Next \/ NextLoss]_vars

-----------------------------------------------------------------------------
(* conv_block, resnet_block, final_block *)

(* A tensor is followed through the blocks as its dependency map: for each  *)
(* channel and pixel, the set of image entries <<channel, pixel>> that the  *)
(* value is computed from when no unmasked weight is zero.  The activation  *)
(* and the bias act on each entry alone and leave the map unchanged.        *)

Pixels(dims) == Range(dims[1]) \X Range(dims[2])

\* PixelConv2D(ptype, filters, kernel_size, padding='same')(input): build
\* with the input's channel count, then call.  Output channel o at pixel p
\* reads input channel ch at p + (k1 - mid, k2 - mid) wherever the masked
\* kernel is not zero.
PixelConvDep(ptype, filters, ksize, input, cin, dims) ==
    LET kernel_shape == <<ksize, ksize, cin, filters>>
        mask == BuildMask(ptype, kernel_shape).data
        pad == (ksize - 1) \div 2
    IN [op \in Range(filters) \X Pixels(dims) |->
           UNION {input[<<i[3], <<op[2][1] + i[1] - pad,
                                  op[2][2] + i[2] - pad>>>>] :
                  i \in {j \in KernelIndex(kernel_shape) :
                            /\ j[4] = op[1]
                            /\ mask[j] = 1
                            /\ <<op[2][1] + j[1] - pad, op[2][2] + j[2] - pad>>
                                   \in Pixels(dims)}}]

\* the three layers of a block, in the order their outputs are concatenated
BlockTypes == <<<<"r", "b">>, <<"g", "b">>, <<"b", "b">>>>

\* conv_block that never switches to the a masks (mutant)
BlockPType_AlwaysB(t, is_first) == t

\* t = t[0] + 'a' when is_first
BlockPType(t, is_first) == IF is_first THEN <<t[1], "a">> ELSE t

\* Concatenate()(outs): channel ch of the result is channel ch % filters of
\* outs[ch // filters]
Concatenate(outs, filters, dims) ==
    [cp \in Range(3 * filters) \X Pixels(dims) |->
        outs[(cp[1] \div filters) + 1][<<cp[1] % filters, cp[2]>>]]

\* conv_block(input_tensor, filters, kernel_size, name, is_first)
ConvBlock(input, cin, filters, ksize, is_first, dims) ==
    Concatenate([g \in 1 .. 3 |->
                    PixelConvDep(BlockPType(BlockTypes[g], is_first), filters,
                                 ksize, input, cin, dims)],
                filters, dims)

\* resnet_block(input_tensor, filters, stage, block, kernel)
ResnetBlock(input, cin, filters, kern, dims) ==
    LET a == ConvBlock(input, cin, filters[1], 1, FALSE, dims)
        b == ConvBlock(a, 3 * filters[1], filters[2], kern, FALSE, dims)
        c == ConvBlock(b, 3 * filters[2], filters[3], 1, FALSE, dims)
    IN [cp \in DOMAIN c |-> c[cp] \cup input[cp]]

\* final_block(input_tensor, filters, in_filters, name, kernel_size)
FinalBlock(input, cin, filters, ksize, dims) ==
    Concatenate([g \in 1 .. 3 |->
                    PixelConvDep(BlockTypes[g], filters, ksize, input, cin,
                                 dims)],
                filters, dims)

\* odd kernel sizes
NetKernels == {k \in 1 .. MaxNetKernel : k % 2 = 1}

\* image heights and widths
NetSides == {MaxNetSide - 1, MaxNetSide}

\* the blocks a further block may follow
Body == {"conv_block", "resnet_block"}

\* the image: 3 channels, each entry depending on itself
InitNet ==
    /\ unit = "net"
    /\ net_pc = "image"
    /\ net_dims \in NetSides \X NetSides
    /\ net_filters = 1
    /\ net_depth = 0
    /\ dep = [cp \in Range(3) \X Pixels(net_dims) |-> {cp}]
    /\ MaskIdle /\ LayerIdle /\ PvalsIdle /\ LossIdle

\* x = conv_block(image, filters, kernel_size, is_first=True)
FirstBlockStep(filters, ksize) ==
    /\ unit = "net"
    /\ net_pc = "image"
    /\ dep' = ConvBlock(dep, 3, filters, ksize, TRUE, net_dims)
    /\ net_filters' = filters
    /\ net_pc' = "conv_block"
    /\ net_depth' = 1
    /\ UNCHANGED <<unit, net_dims, maskVars, layerVars, pvalsVars, lossVars>>

\* x = conv_block(x, filters, kernel_size)
ConvBlockStep(filters, ksize) ==
    /\ unit = "net"
    /\ net_pc \in Body
    /\ net_depth < MaxDepth
    /\ dep' = ConvBlock(dep, 3 * net_filters, filters, ksize, FALSE, net_dims)
    /\ net_filters' = filters
    /\ net_pc' = "conv_block"
    /\ net_depth' = net_depth + 1
    /\ UNCHANGED <<unit, net_dims, maskVars, layerVars, pvalsVars, lossVars>>

\* x = resnet_block(x, (f1, f2, f3), kernel); Add needs 3 * f3 channels on
\* both sides
ResnetBlockStep(f1, f2, kern) ==
    /\ unit = "net"
    /\ net_pc \in Body
    /\ net_depth < MaxDepth
    /\ dep' = ResnetBlock(dep, 3 * net_filters, <<f1, f2, net_filters>>,
                          kern, net_dims)
    /\ net_pc' = "resnet_block"
    /\ net_depth' = net_depth + 1
    /\ UNCHANGED <<unit, net_dims, net_filters, maskVars, layerVars,
                   pvalsVars, lossVars>>

\* x = final_block(x, filters, in_filters, name)
FinalBlockStep(filters, ksize) ==
    /\ unit = "net"
    /\ net_pc \in Body
    /\ dep' = FinalBlock(dep, 3 * net_filters, filters, ksize, net_dims)
    /\ net_filters' = filters
    /\ net_pc' = "final_block"
    /\ UNCHANGED <<unit, net_dims, net_depth, maskVars, layerVars, pvalsVars,
                   lossVars>>

NextNet ==
    \/ \E f \in 1 .. MaxFilters, k \in NetKernels : FirstBlockStep(f, k)
    \/ \E f \in 1 .. MaxFilters, k \in NetKernels : ConvBlockStep(f, k)
    \/ \E f1, f2 \in 1 .. MaxFilters, k \in NetKernels :
          ResnetBlockStep(f1, f2, k)
    \/ \E f \in 1 .. MaxFilters, k \in NetKernels : FinalBlockStep(f, k)

SpecNet == InitNet /\ [][NextNet]_vars

-----------------------------------------------------------------------------
(* Properties of build_mask (checked under SpecMask) *)

\* r = 0, g = 1, b = 2
ColorIndex(c) == IF c = "r" THEN 0 ELSE IF c = "g" THEN 1 ELSE 2

\* odd square kernel, input channels divisible by 3
ValidShape(sh) == sh[1] = sh[2] /\ sh[1] % 2 = 1 /\ sh[3] % 3 = 0

\* the kernel position <<k1, k2>> is after the centre in raster order
AfterCentre(k1, k2, mid) == k1 > mid \/ (k1 = mid /\ k2 > mid)

\* C1: for an odd square kernel and input channels divisible by 3, the mask
\* of every ptype holds only 0 and 1, over the whole kernel shape, and is 0
\* for every output channel at each kernel position after the centre in
\* raster order and at each input channel of a later colour group
\* (chan >= filt_thres).
C1_MaskBinaryCausal ==
    \A v \in Variants :
        (masks[v] # NotCalled /\ ValidShape(m_shape)) =>
            LET mid == m_shape[1] \div 2
                thres == ((ColorIndex(m_color) + 1) * m_shape[3]) \div 3
                data == masks[v].data
            IN /\ masks[v].err = "none"
               /\ DOMAIN data = KernelIndex(m_shape)
               /\ \A i \in DOMAIN data :
                     /\ data[i] \in {0, 1}
                     /\ (AfterCentre(i[1], i[2], mid) \/ i[3] >= thres)
                            => data[i] = 0

\* a 5x5 kernel over 6 input channels, colour g, both variants built, with
\* masked and unmasked entries
C1_Witness ==
    /\ m_shape = <<5, 5, 6, 2>> /\ m_color = "g"
    /\ \A v \in Variants : masks[v].err = "none"
    /\ \E i, j \in DOMAIN masks["a"].data :
          masks["a"].data[i] = 1 /\ masks["a"].data[j] = 0

\* C3: the mask is exactly the set of raster-prior positions: an entry is 1
\* iff its kernel position is not after the centre, its input channel is
\* below the end of the layer's colour group, and it is not the centre of
\* the layer's own group in variant a; for a 5x5 kernel and ptype rb exactly
\* 13 spatial positions are unmasked, and only in the first Cin/3 channels.
C3_MaskExact ==
    \A v \in Variants :
        (masks[v] # NotCalled /\ ValidShape(m_shape)) =>
            LET mid == m_shape[1] \div 2
                g == ColorIndex(m_color)
                cin == m_shape[3]
                data == masks[v].data
                Prior(i) ==
                    /\ (i[1] < mid \/ (i[1] = mid /\ i[2] <= mid))
                    /\ i[3] < ((g + 1) * cin) \div 3
                    /\ ~(/\ v = "a" /\ i[1] = mid /\ i[2] = mid
                         /\ (g * cin) \div 3 <= i[3]
                         /\ i[3] < ((g + 1) * cin) \div 3)
            IN /\ masks[v].err = "none"
               /\ \A i \in KernelIndex(m_shape) : (data[i] = 1) <=> Prior(i)
               /\ (m_shape[1] = 5 /\ m_color = "r" /\ v = "b") =>
                     \A chan \in Range(cin), out \in Range(m_shape[4]) :
                        Cardinality({k \in Range(5) \X Range(5) :
                                        data[<<k[1], k[2], chan, out>>] = 1})
                            = (IF chan < cin \div 3 THEN 13 ELSE 0)

\* the 5x5 mask of ptype rb over 6 input channels has been built
C3_Witness ==
    /\ m_shape = <<5, 5, 6, 1>> /\ m_color = "r"
    /\ masks["b"].err = "none"
    /\ masks["b"].data[<<2, 2, 1, 0>>] = 1
    /\ masks["b"].data[<<2, 3, 1, 0>>] = 0

\* C4: for one colour and one kernel shape, the variant a mask and the
\* variant b mask differ exactly at the centre position of the input
\* channels of the layer's own colour group, where a is 0 and b is 1.
C4_VariantsDifferAtCentre ==
    (masks["a"].err = "none" /\ masks["b"].err = "none") =>
        LET mid == m_shape[1] \div 2
            g == ColorIndex(m_color)
            cin == m_shape[3]
            Own(i) == /\ i[1] = mid /\ i[2] = mid
                      /\ (g * cin) \div 3 <= i[3]
                      /\ i[3] < ((g + 1) * cin) \div 3
        IN \A i \in KernelIndex(m_shape) :
              IF Own(i)
              THEN masks["a"].data[i] = 0 /\ masks["b"].data[i] = 1
              ELSE masks["a"].data[i] = masks["b"].data[i]

\* both variants of colour b built for a 3x3 kernel; they differ at the
\* centre of channel 2 and agree at the centre of channel 0
C4_Witness ==
    /\ m_shape = <<3, 3, 3, 2>> /\ m_color = "b"
    /\ masks["a"].err = "none" /\ masks["b"].err = "none"
    /\ masks["a"].data[<<1, 1, 2, 1>>] # masks["b"].data[<<1, 1, 2, 1>>]
    /\ masks["a"].data[<<1, 1, 0, 1>>] = 1

-----------------------------------------------------------------------------
(* Properties of compute_pvals and compute_mixture (checked under SpecPvals) *)

\* the sum of vec[lo..hi], by halves
RECURSIVE SumRange(_, _, _)
SumRange(vec, lo, hi) ==
    IF lo > hi THEN 0
    ELSE IF lo = hi THEN vec[lo]
    ELSE LET mid == (lo + hi) \div 2
         IN SumRange(vec, lo, mid) + SumRange(vec, mid + 1, hi)

\* the edge between bin i and bin i + 1: (i + 0.5 - 127.5) / 127.5, as a
\* position in units of 1 / 127.5
BinEdge(i) == i - 127

\* C5: compute_pvals returns exactly 256 values, none negative, that sum to
\* 1; bin 0 is the CDF at its upper edge, bin 255 is 1 minus the CDF at its
\* lower edge, an interior bin is the difference of the CDF at its two
\* edges, the upper edge of a bin being the lower edge of the next; and the
\* saturating sigmoid is non-decreasing with values in [0, 1].
C5_PvalsDistribution ==
    (pvals # NoTensor) =>
        LET M == pv_arg[1]
            S == pv_arg[2]
        IN /\ DOMAIN pvals = 0 .. 255
           /\ \A i \in DOMAIN pvals : pvals[i] >= 0
           /\ SumRange(pvals, 0, 255) = ONE
           /\ pvals[0] = LogisticCdf(BinEdge(0), M, S)
           /\ pvals[255] = ONE - LogisticCdf(BinEdge(254), M, S)
           /\ \A i \in 1 .. 254 :
                 pvals[i] = LogisticCdf(BinEdge(i), M, S)
                            - LogisticCdf(BinEdge(i - 1), M, S)
           /\ \A k \in -40 .. 40 :
                 /\ 0 <= Sigmoid(k) /\ Sigmoid(k) <= ONE
                 /\ Sigmoid(k) <= Sigmoid(k + 1)

\* a table whose mean lies at the top of the pixel range: the last bin
\* holds mass, the sigmoid is cut off at both ends and not in between
C5_Witness ==
    /\ pvals # NoTensor
    /\ pv_arg = <<127, 1>>
    /\ pvals[255] > 0 /\ pvals[254] > 0 /\ pvals[0] = 0
    /\ Sigmoid(-29) = 0 /\ Sigmoid(-19) > 0
    /\ Sigmoid(28) < ONE /\ Sigmoid(29) = ONE

\* C6: with n_comps = 1 and weights = [1.0], compute_mixture returns entry
\* for entry the values of compute_pvals(ms[0], invs[0]); in general entry k
\* is the sum over i < n_comps of weights[i] * compute_pvals(ms[i],
\* invs[i])[k], so the entries sum to the sum of the first n_comps weights.
\* (A mixture entry is in units of 1 / (WUnit * ONE): the weight 1.0 is
\* WUnit and the sum of a table is ONE.)
C6_MixtureOfPvals ==
    (mixture # NoTensor) =>
        LET n == mix_arg.n_comps
            Table(c) == ComputePvals(mix_arg.ms[c], mix_arg.invs[c])
            Weighted(k) ==
                LET S[c \in 0 .. n] ==
                        IF c = 0 THEN 0
                        ELSE S[c - 1] + mix_arg.weights[c] * Table(c)[k]
                IN S[n]
            WeightSum ==
                LET S[c \in 0 .. n] ==
                        IF c = 0 THEN 0 ELSE S[c - 1] + mix_arg.weights[c]
                IN S[n]
        IN /\ DOMAIN mixture = 0 .. 255
           /\ (/\ n = 1 /\ mix_arg.weights[1] = WUnit /\ pvals # NoTensor
               /\ pv_arg = <<mix_arg.ms[1], mix_arg.invs[1]>>)
                 => \A k \in 0 .. 255 : mixture[k] = WUnit * pvals[k]
           /\ \A k \in 0 .. 255 : mixture[k] = Weighted(k)
           /\ SumRange(mixture, 0, 255) = WeightSum * ONE

\* two components mixed with different weights, and compute_pvals of the
\* first one computed beside it
C6_Witness ==
    /\ mixture # NoTensor /\ pvals # NoTensor
    /\ mix_arg.n_comps = 2
    /\ mix_arg.weights = <<1, 3>>
    /\ mix_arg.ms[1] # mix_arg.ms[2]
    /\ \E k \in 0 .. 255 : mixture[k] > 0 /\ mixture[k] # WUnit * pvals[k]

-----------------------------------------------------------------------------
(* Properties of pixelcnn_loss (checked under SpecLoss) *)

\* the target of element e: channel c is repeated n_components times
TargetOfElem(e) == ls_in.target[(e - 1) \div ls_in.n_components + 1]
CdfDiff(e) == ls_in.output[e].cdfplus - ls_in.output[e].cdfminus

\* C2: with n_components = 1 the mixture log-weight added to each channel's
\* log-likelihood is 0 (weight 1) whatever the logits, so the loss is minus
\* the sum of the three per-channel log-probabilities; in general the
\* log-softmax is normalised within each channel's own slice of
\* n_components logits, so each channel's mixture weights sum to 1.
C2_WeightsPerChannel ==
    (ls_err = "none") =>
        LET n == ls_in.n_components
            Ratio == [c \in 1 .. 3 |->
                         FracDiv(ls_out.result[c], <<ls_out.log_ll[c], 1>>)]
        IN /\ (n = 1) =>
                 /\ \A e \in 1 .. 3 : ls_out.logw[e] = FracOne
                 /\ FracMul(Ratio[1], FracMul(Ratio[2], Ratio[3])) = FracOne
           /\ \A c \in 1 .. 3 :
                 FracSum(ls_out.logw, (c - 1) * n + 1, c * n) = FracOne

\* C9: the log-likelihood of an element is taken from exactly one of four
\* branches, in this order: target <= -0.999 gives log_cdfplus; else target
\* >= 0.999 gives log_1minus_cdf; else a CDF difference above 1e-5 gives the
\* logarithm of the difference; else the edge-case correction.  A boundary
\* target never takes the last two, and a difference of exactly 1e-5 with an
\* interior target takes the edge case.
C9_BranchPriority ==
    (ls_err = "none") =>
        /\ DOMAIN ls_out.log_ll = 1 .. (3 * ls_in.n_components)
        /\ \A e \in DOMAIN ls_out.log_ll :
              LET x == TargetOfElem(e)
                  ll == ls_out.log_ll[e]
              IN /\ (x <= -999) => ll = ls_out.log_cdfplus[e]
                 /\ (x > -999 /\ x >= 999) => ll = ls_out.log_1minus_cdf[e]
                 /\ (x > -999 /\ x < 999 /\ CdfDiff(e) > 10)
                        => ll = ls_out.log_diff[e]
                 /\ (x > -999 /\ x < 999 /\ CdfDiff(e) <= 10)
                        => ll = ls_out.edge_case[e]

\* one call with a target of exactly -0.999 whose CDF difference is below
\* 1e-5, an interior target whose difference is exactly 1e-5, and a target
\* of 0.999 whose difference is above it
C9_Witness ==
    /\ ls_err = "none"
    /\ \E e1, e2, e3 \in DOMAIN ls_out.log_ll :
          /\ TargetOfElem(e1) = -999 /\ CdfDiff(e1) < 10
          /\ ls_out.log_ll[e1] = ls_out.log_cdfplus[e1]
          /\ ls_out.log_ll[e1] # ls_out.edge_case[e1]
          /\ TargetOfElem(e2) = 0 /\ CdfDiff(e2) = 10
          /\ ls_out.log_ll[e2] = ls_out.edge_case[e2]
          /\ ls_out.log_ll[e2] # ls_out.log_diff[e2]
          /\ TargetOfElem(e3) = 999 /\ CdfDiff(e3) > 10
          /\ ls_out.log_ll[e3] = ls_out.log_1minus_cdf[e3]
          /\ ls_out.log_ll[e3] # ls_out.log_diff[e3]

-----------------------------------------------------------------------------
(* Properties of the layer (checked under Spec and SpecValidation) *)

\* the channel dimension of the shape the last build was given
GivenInputDim ==
    IF lyr.data_format = "channels_first" THEN input_shape[2]
    ELSE input_shape[4]

\* C7 (as stated): every invalid configuration is rejected with an error
\* before any result or layer state is produced: pixelcnn_loss when
\* img_chns is not 3;
\* build when the input channel dimension is None, when the kernel is not
\* square, when its size is even, or when the input channel count is not
\* divisible by 3; after a failed build the layer has no kernel_mask, no
\* kernel, no bias, and is not built.
C7_InvalidRejected ==
    /\ (unit = "loss" /\ ls_err # "not called" /\ ls_in.img_chns # 3) =>
          ls_err = "AssertionError" /\ ls_out = NoLocals
    /\ (unit = "layer" /\ input_shape # <<>>) =>
          LET d == GivenInputDim
              ks == lyr.kernel_size
              invalid == \/ d = NoneDim
                         \/ ks[1] # ks[2]
                         \/ ks[1] % 2 = 0
                         \/ d % 3 # 0
          IN /\ invalid =>
                  /\ build_err \in {"ValueError", "AssertionError"}
                  /\ ~built
                  /\ kernel_mask = NoTensor /\ kernel = NoTensor
                  /\ bias = NoTensor
             /\ (d = NoneDim) => build_err = "ValueError"
             /\ (build_err # "none") => ~built /\ kernel_mask = NoTensor

\* a step of build that raises
FailedBuildStep == lyr_pc' = "build" /\ build_err' # "none"

\* C7 (amended): every invalid configuration is rejected with an error
\* before any result or layer state is produced: pixelcnn_loss when img_chns
\* is not 3; build when the input channel dimension is None, when the
\* kernel is not square, when its size is even, or when the input channel
\* count is not divisible by 3; a failed build leaves kernel_mask, kernel,
\* bias, the input spec and the built mark as they were, so a layer on
\* which no build has succeeded has no kernel_mask, no kernel, no bias and
\* is not built.
C7_FailedBuildChangesNothing ==
    /\ [](/\ (unit = "loss" /\ ls_err # "not called" /\ ls_in.img_chns # 3)
               => ls_err = "AssertionError" /\ ls_out = NoLocals
          /\ (unit = "layer" /\ input_shape # <<>>) =>
                LET d == GivenInputDim
                    ks == lyr.kernel_size
                    invalid == \/ d = NoneDim
                               \/ ks[1] # ks[2]
                               \/ ks[1] % 2 = 0
                               \/ d % 3 # 0
                IN /\ invalid <=>
                        build_err \in {"ValueError", "AssertionError"}
                   /\ (d = NoneDim) => build_err = "ValueError"
          /\ (unit = "layer" /\ ~built) =>
                /\ kernel_mask = NoTensor /\ kernel = NoTensor
                /\ bias = NoTensor)
    /\ [][FailedBuildStep =>
             UNCHANGED <<built, kernel_mask, kernel, bias, input_spec>>]_vars

\* a layer built on 3 input channels whose second build, given 4 channels,
\* was rejected: it keeps the mask and the weights of the first build
C7_Witness ==
    /\ unit = "layer"
    /\ input_shape # <<>>
    /\ lyr.kernel_size = <<3, 3>>
    /\ lyr.data_format = "channels_first"
    /\ GivenInputDim = 4
    /\ build_err = "AssertionError"
    /\ built /\ input_spec.axes[2] = 3
    /\ kernel_mask # NoTensor /\ kernel # NoTensor

\* a step of call
CallStep == lyr_pc' = "call"

\* a step of the optimiser
UpdateStep == lyr_pc' = "update"

\* C10: once build has succeeded, whatever calls and weight updates follow,
\* kernel_mask keeps the value computed at build and neither changes it; the
\* kernel of every convolution is kernel * kernel_mask, so it is 0 wherever
\* the mask is 0 whatever the learned weight there; call leaves kernel and
\* bias unchanged.
C10_MaskConstant ==
    /\ [](built =>
            kernel_mask =
               BuildMask(lyr.ptype,
                         KernelShapeOf(lyr, input_spec.axes[2])).data)
    /\ [][/\ (built /\ (CallStep \/ UpdateStep)) =>
                kernel_mask' = kernel_mask
          /\ CallStep =>
                /\ kernel' = kernel /\ bias' = bias
                /\ masked_kernel' =
                      [i \in DOMAIN kernel |-> kernel[i] * kernel_mask[i]]
                /\ \A i \in DOMAIN kernel_mask :
                      (kernel_mask[i] = 0) => masked_kernel'[i] = 0]_vars

\* a 3x3 layer was called with weights that are not all 1: the
\* kernel used is 0 at a masked position whose weight is not, and is the
\* weight, not 1, at an unmasked one
C10_Witness ==
    /\ unit = "layer" /\ built
    /\ lyr.kernel_size = <<3, 3>>
    /\ lyr_pc = "call"
    /\ \E i, j \in DOMAIN kernel_mask :
          /\ kernel_mask[i] = 0 /\ kernel[i] # 0 /\ masked_kernel[i] = 0
          /\ kernel_mask[j] = 1 /\ masked_kernel[j] = kernel[j]
          /\ kernel[j] # 1

-----------------------------------------------------------------------------
(* Properties of the assembled network (checked under SpecNet) *)

\* pixel q is strictly before pixel p in raster order
Before(q, p) == q[1] < p[1] \/ (q[1] = p[1] /\ q[2] < p[2])

\* C8: in a network of conv_block(is_first=True) on the 3-channel image,
\* any conv_block and resnet_block after it, and a final_block, the output
\* channels of colour group c at pixel p depend on image channel c2 at
\* pixel q only if q is strictly before p and c2 <= c, or q = p and c2 < c.
C8_RasterCausality ==
    (net_pc = "final_block") =>
        \A cp \in DOMAIN dep :
            LET c == cp[1] \div net_filters
                p == cp[2]
            IN \A d \in dep[cp] :
                  \/ Before(d[2], p) /\ d[1] <= c
                  \/ d[2] = p /\ d[1] < c

\* a finished network of as many blocks as allowed before the final one, on an image of
\* two rows and columns or more, in which the b group at the last pixel
\* depends on the g channel of that pixel and on its own channel at the pixel
\* before, and the g group on the r channel at the first pixel
C8_Witness ==
    /\ net_pc = "final_block" /\ net_depth = MaxDepth
    /\ net_dims[1] >= 2 /\ net_dims[2] >= 2
    /\ LET last == <<net_dims[1] - 1, net_dims[2] - 1>>
           prev == <<net_dims[1] - 1, net_dims[2] - 2>>
       IN /\ <<1, last>> \in dep[<<2 * net_filters, last>>]
          /\ <<2, prev>> \in dep[<<2 * net_filters, last>>]
          /\ <<0, <<0, 0>>>> \in dep[<<net_filters, last>>]

====
